---- MODULE Spec2Model ----
(***************************************************************************)
(* Model of the 1688 purchase-order import wizard                          *)
(* (odoo_1688_import/wizard/import_1688_orders.py).                        *)
(*                                                                         *)
(* Text is a sequence of one-character strings, so that str()/strip() and  *)
(* float() are computed rather than assumed.  Numbers produced by float()  *)
(* are exact rationals <<num, den>> (den > 0, lowest terms): the model     *)
(* abstracts binary floating point rounding and nothing else.              *)
(***************************************************************************)
EXTENDS Integers, Sequences, FiniteSets, TLC

VARIABLES
    pc,             \* position inside action_import / the cell reader
    cell,           \* the raw cell handed to _get_cell_value
    cell_value,     \* what _get_cell_value returned for it
    sheet_rows,     \* data rows (row 2 onward) read from the sheet so far
    orders_dict,    \* _parse_excel_data: insertion-ordered dict, as a sequence
    last_order_no,  \* _parse_excel_data: local last_order_no
    order_idx,      \* _create_purchase_orders: number of orders already looped over
    created_orders, \* _create_purchase_orders: the outcome list
    raised_log,     \* per processed order, the exception raised inside its try body
    purchase_orders,\* purchase.order records created through PurchaseOrder.create
    partners,       \* res.partner supplier names known to the registry
    state,          \* wizard field state
    import_summary, \* wizard field import_summary
    user_error,     \* the UserError raised to the caller, if any
    partner,        \* _create_purchase_orders locals, per pass of its for loop:
    shipping_fee,   \*   partner (its name), shipping_fee, total_amount,
    total_amount,   \*   the index of the line the running inner loop is at,
    line_idx,       \*   skipped_lines and po_vals['order_line']
    skipped_lines,
    order_line

reader == <<cell, cell_value>>

parser == <<sheet_rows, orders_dict, last_order_no>>

results == <<order_idx, created_orders, raised_log>>

host == <<purchase_orders, partners>>

wizard == <<state, import_summary, user_error>>

locals == <<partner, shipping_fee, total_amount, line_idx, skipped_lines, order_line>>

vars == <<pc, reader, parser, results, host, wizard, locals>>

----------------------------------------------------------------------------
(* Bounds of the model.                                                    *)

MaxLen == 3

MaxRows == 3

MaxGroupRows == 3

MaxLines == 2

----------------------------------------------------------------------------
(* Python values.                                                          *)

\* A cell value / Python scalar: t is the type, s the text of a str, n the
\* number of an int or bool, the tenths of a float, the stamp of a datetime.
NoneV == [t |-> "none", s |-> <<>>, n |-> 0]

FalseV == [t |-> "bool", s |-> <<>>, n |-> 0]

TrueV == [t |-> "bool", s |-> <<>>, n |-> 1]

StrV(chars) == [t |-> "str", s |-> chars, n |-> 0]

IntV(k) == [t |-> "int", s |-> <<>>, n |-> k]

FloatV(tenths) == [t |-> "float", s |-> <<>>, n |-> tenths]

DatetimeV(stamp) == [t |-> "datetime", s |-> <<>>, n |-> stamp]

\* Python truth value of a scalar.
Truthy(v) ==
    CASE v.t = "none" -> FALSE
      [] v.t = "str" -> Len(v.s) > 0
      [] v.t = "datetime" -> TRUE
      [] OTHER -> v.n # 0

Digit(d) == <<"0", "1", "2", "3", "4", "5", "6", "7", "8", "9">>[d + 1]

RECURSIVE NatStr(_)
NatStr(k) == IF k < 10 THEN <<Digit(k)>> ELSE NatStr(k \div 10) \o <<Digit(k % 10)>>

Abs(k) == IF k < 0 THEN -k ELSE k

\* str(value) for the values a cell can hold.
PyStr(v) ==
    CASE v.t = "str" -> v.s
      [] v.t = "int" -> (IF v.n < 0 THEN <<"-">> ELSE <<>>) \o NatStr(Abs(v.n))
      [] v.t = "float" -> (IF v.n < 0 THEN <<"-">> ELSE <<>>)
                          \o NatStr(Abs(v.n) \div 10) \o <<".">> \o <<Digit(Abs(v.n) % 10)>>
      [] v.t = "bool" -> IF v.n = 0 THEN <<"F", "a", "l", "s", "e">> ELSE <<"T", "r", "u", "e">>
      [] v.t = "none" -> <<"N", "o", "n", "e">>
      [] OTHER -> <<"d", "t">> \o NatStr(v.n)

IsSpace(c) == c = " "

RECURSIVE LStrip(_)
LStrip(s) == IF s # <<>> /\ IsSpace(Head(s)) THEN LStrip(Tail(s)) ELSE s

RECURSIVE RStrip(_)
RStrip(s) == IF s # <<>> /\ IsSpace(s[Len(s)]) THEN RStrip(SubSeq(s, 1, Len(s) - 1)) ELSE s

\* str.strip()
Strip(s) == RStrip(LStrip(s))

\* _get_cell_value(cell), cell.value being v.
GetCellValue(v) ==
    IF v.t = "none" THEN FalseV
    ELSE IF v.t = "datetime" THEN v
    ELSE IF Truthy(v) THEN StrV(Strip(PyStr(v))) ELSE FalseV

----------------------------------------------------------------------------
(* Numbers: float() and the arithmetic of the shipping allocation.         *)

RECURSIVE Gcd(_, _)
Gcd(a, b) == IF b = 0 THEN a ELSE Gcd(b, a % b)

\* The rational n/d in lowest terms with a positive denominator.
Rat(n, d) ==
    LET g == Gcd(Abs(n), Abs(d))
        sg == IF d < 0 THEN -1 ELSE 1
    IN <<(sg * n) \div g, (sg * d) \div g>>

Zero == Rat(0, 1)

RAdd(x, y) == Rat(x[1] * y[2] + y[1] * x[2], x[2] * y[2])

RSub(x, y) == Rat(x[1] * y[2] - y[1] * x[2], x[2] * y[2])

RMul(x, y) == Rat(x[1] * y[1], x[2] * y[2])

\* x / y, y nonzero
RDiv(x, y) == Rat(x[1] * y[2], x[2] * y[1])

RPos(x) == x[1] > 0

IsDigit(c) == c \in {"0", "1", "2", "3", "4", "5", "6", "7", "8", "9"}

DigitVal(c) == CHOOSE d \in 0..9 : Digit(d) = c

RECURSIVE DigitsVal(_)
DigitsVal(s) == IF s = <<>> THEN 0 ELSE 10 * DigitsVal(SubSeq(s, 1, Len(s) - 1)) + DigitVal(s[Len(s)])

RECURSIVE Pow10(_)
Pow10(k) == IF k = 0 THEN 1 ELSE 10 * Pow10(k - 1)

\* float(s) on text: an optional sign, digits, at most one point, at least one
\* digit.  ok = FALSE stands for the ValueError float() raises on other text.
ParseFloat(s) ==
    LET neg == s # <<>> /\ Head(s) = "-"
        body == IF s # <<>> /\ Head(s) \in {"-", "+"} THEN Tail(s) ELSE s
        dots == {i \in 1..Len(body) : body[i] = "."}
        dot == IF dots = {} THEN Len(body) + 1 ELSE CHOOSE i \in dots : TRUE
        ip == SubSeq(body, 1, dot - 1)
        fp == SubSeq(body, dot + 1, Len(body))
        wellformed == /\ Cardinality(dots) <= 1
                      /\ Len(ip) + Len(fp) >= 1
                      /\ \A i \in 1..Len(ip) : IsDigit(ip[i])
                      /\ \A i \in 1..Len(fp) : IsDigit(fp[i])
    IN IF wellformed
       THEN [ok |-> TRUE,
             r |-> Rat((IF neg THEN -1 ELSE 1) * (DigitsVal(ip) * Pow10(Len(fp)) + DigitsVal(fp)),
                       Pow10(Len(fp)))]
       ELSE [ok |-> FALSE, r |-> Zero]

ValueErrorText == "could not convert string to float"

TypeErrorText == "float() argument must be a string or a number"

\* float(v) if v else 0.0, v being a value _get_cell_value returned: FalseV,
\* a str or a datetime (float() of a datetime raises TypeError).
FloatOrZero(v) ==
    IF ~Truthy(v) THEN [ok |-> TRUE, r |-> Zero, exc |-> ""]
    ELSE IF v.t = "str"
         THEN LET f == ParseFloat(v.s)
              IN [ok |-> f.ok, r |-> f.r, exc |-> IF f.ok THEN "" ELSE ValueErrorText]
         ELSE [ok |-> FALSE, r |-> Zero, exc |-> TypeErrorText]

----------------------------------------------------------------------------
(* _parse_excel_data                                                       *)

\* A sheet row: the raw cells of the columns the import reads and branches
\* on.  (The columns that only feed the free-text note are left out.)
Row(order_no, seller_company, seller_name, fee, product_name, unit_price, quantity, ref) ==
    [order_no |-> order_no, seller_company |-> seller_company, seller_name |-> seller_name,
     shipping_fee |-> fee, product_name |-> product_name,
     unit_price |-> unit_price, quantity |-> quantity, odoo_product_ref |-> ref]

\* last_order_no before its first assignment
Unbound == [t |-> "unbound", s |-> <<>>, n |-> 0]

\* orders_dict[order_no] = {...} for a new key (lines 105-120)
NewAggregate(order_no, row) ==
    [order_no |-> order_no,
     seller_company |-> GetCellValue(row.seller_company),
     seller_name |-> GetCellValue(row.seller_name),
     shipping_fee |-> GetCellValue(row.shipping_fee),
     lines |-> <<>>]

\* line_data (lines 125-134)
LineData(product_name, row) ==
    [product_name |-> product_name,
     unit_price |-> GetCellValue(row.unit_price),
     quantity |-> GetCellValue(row.quantity),
     odoo_product_ref |-> GetCellValue(row.odoo_product_ref)]

\* order_no in orders_dict
HasKey(dict, order_no) == \E i \in 1..Len(dict) : dict[i].order_no = order_no

KeyIndex(dict, order_no) == CHOOSE i \in 1..Len(dict) : dict[i].order_no = order_no

\* ParseOneRow without the `continue` on a blank order number
ParseOneRowKeepingBlank(dict, last, row) ==
    LET read == GetCellValue(row.order_no)
        carry == ~Truthy(read) /\ dict # <<>>
        order_no == IF carry THEN last ELSE read
        dict1 == IF HasKey(dict, order_no) THEN dict
                 ELSE Append(dict, NewAggregate(order_no, row))
        product_name == GetCellValue(row.product_name)
        k == KeyIndex(dict1, order_no)
        dict2 == IF Truthy(product_name)
                 THEN [dict1 EXCEPT ![k].lines = Append(@, LineData(product_name, row))]
                 ELSE dict1
    IN [dict |-> dict2, last |-> IF carry THEN last ELSE read, unbound |-> FALSE]

\* ParseOneRow refreshing the header fields from every row that carries the
\* order number
ParseOneRowOverwritingHeader(dict, last, row) ==
    LET read == GetCellValue(row.order_no)
        carry == ~Truthy(read) /\ dict # <<>>
        order_no == IF carry THEN last ELSE read
        dict1 == IF HasKey(dict, order_no)
                 THEN IF carry THEN dict
                      ELSE [dict EXCEPT ![KeyIndex(dict, order_no)] =
                               [NewAggregate(order_no, row) EXCEPT !.lines =
                                   dict[KeyIndex(dict, order_no)].lines]]
                 ELSE Append(dict, NewAggregate(order_no, row))
        product_name == GetCellValue(row.product_name)
        k == KeyIndex(dict1, order_no)
        dict2 == IF Truthy(product_name)
                 THEN [dict1 EXCEPT ![k].lines = Append(@, LineData(product_name, row))]
                 ELSE dict1
    IN IF ~Truthy(order_no)
       THEN [dict |-> dict, last |-> IF carry THEN last ELSE read, unbound |-> FALSE]
       ELSE [dict |-> dict2, last |-> IF carry THEN last ELSE read, unbound |-> FALSE]

\* One iteration of the row loop (lines 88-135): the dict and last_order_no
\* after the row, and whether reading last_order_no hit an unbound local.
ParseOneRow(dict, last, row) ==
    LET read == GetCellValue(row.order_no)
        carry == ~Truthy(read) /\ dict # <<>>
        order_no == IF carry THEN last ELSE read
        last2 == IF carry THEN last ELSE read
        dict1 == IF HasKey(dict, order_no) THEN dict
                 ELSE Append(dict, NewAggregate(order_no, row))
        product_name == GetCellValue(row.product_name)
        k == KeyIndex(dict1, order_no)
        dict2 == IF Truthy(product_name)
                 THEN [dict1 EXCEPT ![k].lines = Append(@, LineData(product_name, row))]
                 ELSE dict1
    IN IF carry /\ last = Unbound
       THEN [dict |-> dict, last |-> last, unbound |-> TRUE]
       ELSE IF ~Truthy(order_no)
            THEN [dict |-> dict, last |-> last2, unbound |-> FALSE]
            ELSE [dict |-> dict2, last |-> last2, unbound |-> FALSE]

----------------------------------------------------------------------------
(* _find_product_by_reference, _get_or_create_partner                      *)

\* product.product records of the host catalog (default_code is their
\* Internal Reference).
Catalog == {[id |-> 1, default_code |-> <<"P", "1">>]}

EmptyRefText == "odoo product reference (column AA) is empty"

NotFoundText == "no product with this Internal Reference"

\* Product.search([('default_code', '=', odoo_ref)], limit=1)
SearchProduct(odoo_ref) ==
    {p \in Catalog : odoo_ref.t = "str" /\ p.default_code = odoo_ref.s}

\* _find_product_by_reference falling back to any product when the
\* reference matches none
FindProductWithFallback(line_data) ==
    IF ~Truthy(line_data.odoo_product_ref)
    THEN [found |-> FALSE, product |-> 0, message |-> EmptyRefText]
    ELSE [found |-> TRUE, product |-> (CHOOSE p \in Catalog : TRUE).id, message |-> ""]

\* _find_product_by_reference(line_data), when the catalog search does not raise
FindProductByReference(line_data) ==
    LET odoo_ref == line_data.odoo_product_ref
        product == SearchProduct(odoo_ref)
    IN IF ~Truthy(odoo_ref)
       THEN [found |-> FALSE, product |-> 0, message |-> EmptyRefText]
       ELSE IF product # {}
            THEN [found |-> TRUE, product |-> (CHOOSE p \in product : TRUE).id, message |-> ""]
            ELSE [found |-> FALSE, product |-> 0, message |-> NotFoundText]

UnknownSupplier == StrV(<<"?">>)

\* company_name or member_name or '未知供应商'
PartnerName(company_name, member_name) ==
    IF Truthy(company_name) THEN company_name
    ELSE IF Truthy(member_name) THEN member_name ELSE UnknownSupplier

\* _get_or_create_partner: the registry afterwards and the partner's name.
\* Every partner of the registry was created here with supplier_rank 1.
GetOrCreatePartner(registry, company_name, member_name) ==
    LET hit == Truthy(company_name) /\ \E i \in 1..Len(registry) : registry[i] = company_name
    IN IF hit
       THEN [registry |-> registry, name |-> company_name]
       ELSE [registry |-> Append(registry, PartnerName(company_name, member_name)),
             name |-> PartnerName(company_name, member_name)]

----------------------------------------------------------------------------
(* _create_purchase_orders: values built inside the for loop               *)

\* unit_price_with_shipping adding the line's whole share to the unit price
UnitPriceWithUndividedShipping(unit_price, quantity, total, fee) ==
    IF RPos(total) /\ RPos(fee)
    THEN RAdd(unit_price, RMul(RDiv(RMul(unit_price, quantity), total), fee))
    ELSE unit_price

\* lines 202-207: unit_price_with_shipping
UnitPriceWithShipping(unit_price, quantity, total, fee) ==
    IF RPos(total) /\ RPos(fee)
    THEN LET line_amount == RMul(unit_price, quantity)
             shipping_allocation == RMul(RDiv(line_amount, total), fee)
         IN RAdd(unit_price, IF RPos(quantity) THEN RDiv(shipping_allocation, quantity) ELSE Zero)
    ELSE unit_price

\* lines 188-192
SkippedLine(line_data, reason) ==
    [product_name |-> line_data.product_name,
     odoo_ref |-> line_data.odoo_product_ref,
     reason |-> reason]

\* lines 210-217
LineVals(product, line_data, quantity, price_unit) ==
    [product_id |-> product, name |-> line_data.product_name,
     product_qty |-> quantity, price_unit |-> price_unit]

NoValidLinesText == "no valid order lines"

\* the dict appended in the except clause (lines 250-254)
ErrorOutcome(order_data, text) ==
    [order_no |-> order_data.order_no, status |-> "error", po_id |-> 0,
     partner_name |-> FalseV, message |-> text, message_count |-> 0,
     skipped_key |-> "absent", skipped_lines |-> <<>>]

\* result_data (lines 223-234)
CreatedOutcome(order_data, po_id, partner_name, skipped) ==
    [order_no |-> order_data.order_no,
     status |-> IF skipped # <<>> THEN "partial" ELSE "success",
     po_id |-> po_id, partner_name |-> partner_name,
     message |-> "", message_count |-> 0,
     skipped_key |-> IF skipped # <<>> THEN "list" ELSE "absent",
     skipped_lines |-> skipped]

\* the dict appended when po_vals['order_line'] is empty (lines 241-246)
SkippedOutcome(order_data, skipped) ==
    [order_no |-> order_data.order_no, status |-> "skipped", po_id |-> 0,
     partner_name |-> FalseV, message |-> NoValidLinesText,
     message_count |-> Len(skipped),
     skipped_key |-> IF skipped # <<>> THEN "list" ELSE "none",
     skipped_lines |-> skipped]

\* po_vals as handed to PurchaseOrder.create (lines 161-168), with the id the
\* new record gets
PoVals(po_id, partner_name, order_data, lines) ==
    [id |-> po_id, partner |-> partner_name, origin |-> order_data.order_no,
     order_line |-> lines]

\* What the host raises in the supplier registry, the catalog search and
\* PurchaseOrder.create when it fails there.
PartnerErrorText == "supplier registry error"

SearchErrorText == "catalog search error"

CreateErrorText == "purchase order create error"

----------------------------------------------------------------------------
(* _generate_summary                                                       *)

CountStatus(outcomes, status) ==
    Cardinality({i \in 1..Len(outcomes) : outcomes[i].status = status})

\* the order numbers listed in the block of one status, in list order
Block(outcomes, status) ==
    LET picked == SelectSeq(outcomes, LAMBDA o : o.status = status)
    IN [i \in 1..Len(picked) |-> picked[i].order_no]

\* The summary text, as its parts: the five counts, the four blocks and
\* whether the closing hint is appended.
GenerateSummary(outcomes) ==
    [total |-> Len(outcomes),
     success |-> CountStatus(outcomes, "success"),
     partial |-> CountStatus(outcomes, "partial"),
     skipped |-> CountStatus(outcomes, "skipped"),
     failed |-> CountStatus(outcomes, "error"),
     success_block |-> Block(outcomes, "success"),
     partial_block |-> Block(outcomes, "partial"),
     failed_block |-> Block(outcomes, "error"),
     skipped_block |-> Block(outcomes, "skipped"),
     hint |-> CountStatus(outcomes, "partial") > 0 \/ CountStatus(outcomes, "skipped") > 0]

----------------------------------------------------------------------------
(* Inputs.                                                                 *)

SeqsUpTo(S, n) == UNION {[1..k -> S] : k \in 0..n}

O1 == StrV(<<"O", "1">>)

O2 == StrV(<<"O", "2">>)

\* Cells handed to the cell reader on its own.
RawCells ==
    {NoneV, TrueV, FalseV, DatetimeV(1), DatetimeV(2)}
    \cup {StrV(s) : s \in SeqsUpTo({" ", "a", "0"}, MaxLen)}
    \cup {IntV(k) : k \in {-1, 0, 1, 12}}
    \cup {FloatV(k) : k \in {0, 5, 20}}

\* Rows of a whole import run: two order numbers, continuation rows, rows
\* without a product, lines whose reference is blank, known or unknown, and
\* a line whose unit price is not a number.
SheetRows ==
    {Row(o, StrV(<<"S">>), NoneV, IntV(2), l[1], l[2], IntV(1), l[3]) :
        o \in {NoneV, O1, O2},
        l \in {<<NoneV, NoneV, NoneV>>,
               <<StrV(<<"A">>), IntV(1), NoneV>>,
               <<StrV(<<"A">>), IntV(1), StrV(<<"P", "1">>)>>,
               <<StrV(<<"A">>), IntV(1), StrV(<<"P", "X">>)>>,
               <<StrV(<<"A">>), StrV(<<"x">>), StrV(<<"P", "1">>)>>}}

\* Rows for the grouping alone: blank, whitespace-only and real order
\* numbers; two sellers; no product or one of two product names.
GroupRows ==
    {Row(o, c, NoneV, NoneV, n, NoneV, NoneV, NoneV) :
        o \in {NoneV, StrV(<<" ">>), O1, O2},
        c \in {StrV(<<"S">>), StrV(<<"T">>)},
        n \in {NoneV, StrV(<<"A">>), StrV(<<"B">>)}}

\* Rows of one order for the shipping allocation: the first row carries the
\* order number and the shipping fee, the others continue it.
AllocLineCells ==
    {<<p, q, r>> : p \in {IntV(1), FloatV(25)}, q \in {IntV(-1), IntV(0), IntV(1), IntV(2)},
                   r \in {StrV(<<"P", "1">>), StrV(<<"P", "X">>)}}

AllocSheets ==
    {[i \in 1..Len(ls) |->
         Row(IF i = 1 THEN O1 ELSE NoneV, StrV(<<"S">>), NoneV, IF i = 1 THEN fee ELSE NoneV,
             StrV(<<"A">>), ls[i][1], ls[i][2], ls[i][3])] :
        ls \in SeqsUpTo(AllocLineCells, MaxLines) \ {<<>>}, fee \in {IntV(0), IntV(3)}}

----------------------------------------------------------------------------
(* The state machine.                                                      *)

\* Everything but the position, the cell and the parser's state, as the
\* wizard record is created.
Fresh ==
    /\ cell_value = Unbound
    /\ order_idx = 0
    /\ created_orders = <<>>
    /\ raised_log = <<>>
    /\ purchase_orders = <<>>
    /\ partners = <<>>
    /\ state = "draft"
    /\ import_summary = <<>>
    /\ user_error = ""
    /\ partner = FalseV
    /\ shipping_fee = Zero
    /\ total_amount = Zero
    /\ line_idx = 0
    /\ skipped_lines = <<>>
    /\ order_line = <<>>

Init ==
    /\ pc = "start"
    /\ cell = NoneV
    /\ sheet_rows = <<>>
    /\ orders_dict = <<>>
    /\ last_order_no = Unbound
    /\ Fresh

\* raise UserError(...) out of action_import: nothing is written
RaiseUserError(text) ==
    /\ pc' = "raised"
    /\ user_error' = text
    /\ UNCHANGED <<reader, parser, results, host, state, import_summary, locals>>

\* line 44: openpyxl failed to import
MissingLibrary ==
    /\ pc = "start"
    /\ RaiseUserError("install openpyxl")

\* line 47: no file uploaded
MissingFile ==
    /\ pc = "start"
    /\ RaiseUserError("upload an Excel file")

\* lines 52-54 raise (bad base64, not a workbook); lines 78-80 wrap it
DecodeFailure ==
    /\ pc = "start"
    /\ RaiseUserError("import failed: cannot load workbook")

\* lines 52-54 succeed; _parse_excel_data starts
LoadWorkbook ==
    /\ pc = "start"
    /\ pc' = "parse"
    /\ UNCHANGED <<reader, parser, results, host, wizard, locals>>

\* one iteration of the row loop of _parse_excel_data on the next row
ParseRow(row) ==
    LET r == ParseOneRow(orders_dict, last_order_no, row)
    IN /\ pc = "parse"
       /\ sheet_rows' = Append(sheet_rows, row)
       /\ IF r.unbound
          THEN /\ pc' = "raised"
               /\ user_error' = "import failed: local variable referenced before assignment"
               /\ UNCHANGED <<orders_dict, last_order_no>>
          ELSE /\ orders_dict' = r.dict
               /\ last_order_no' = r.last
               /\ UNCHANGED <<pc, user_error>>
       /\ UNCHANGED <<reader, results, host, state, import_summary, locals>>

SheetRow ==
    /\ Len(sheet_rows) < MaxRows
    /\ \E row \in SheetRows : ParseRow(row)

GroupRow ==
    /\ Len(sheet_rows) < MaxGroupRows
    /\ \E row \in GroupRows : ParseRow(row)

\* the next row has fewer than 32 cells: row[31] raises IndexError, which
\* lines 78-80 wrap
ShortRow ==
    /\ pc = "parse"
    /\ RaiseUserError("import failed: list index out of range")

\* line 137: the rows are exhausted, _parse_excel_data returns and
\* _create_purchase_orders starts
ParseReturn ==
    /\ pc = "parse"
    /\ pc' = "create"
    /\ UNCHANGED <<reader, parser, results, host, wizard, locals>>

\* the order the for loop of _create_purchase_orders is at
order_data == orders_dict[order_idx + 1]

\* the except clause recording a fixed message instead of str(e)
ExceptWithoutText(text) ==
    /\ created_orders' = Append(created_orders, ErrorOutcome(order_data, "error"))
    /\ raised_log' = Append(raised_log, text)
    /\ order_idx' = order_idx + 1
    /\ pc' = "create"

\* the except clause only logging the error
ExceptWithoutOutcome(text) ==
    /\ created_orders' = created_orders
    /\ raised_log' = Append(raised_log, text)
    /\ order_idx' = order_idx + 1
    /\ pc' = "create"

\* lines 248-254: the except clause, then the next pass of the for loop
Except(text) ==
    /\ created_orders' = Append(created_orders, ErrorOutcome(order_data, text))
    /\ raised_log' = Append(raised_log, text)
    /\ order_idx' = order_idx + 1
    /\ pc' = "create"

\* lines 154-172: supplier, po_vals, shipping_fee, total_amount = 0.0
BeginOrder ==
    /\ pc = "create"
    /\ order_idx < Len(orders_dict)
    /\ LET p == GetOrCreatePartner(partners, order_data.seller_company, order_data.seller_name)
           fee == FloatOrZero(order_data.shipping_fee)
       IN /\ partners' = p.registry
          /\ partner' = p.name
          /\ order_line' = <<>>
          /\ IF fee.ok
             THEN /\ shipping_fee' = fee.r
                  /\ total_amount' = Zero
                  /\ line_idx' = 0
                  /\ pc' = "total"
                  /\ UNCHANGED results
             ELSE /\ Except(fee.exc)
                  /\ UNCHANGED <<shipping_fee, total_amount, line_idx>>
    /\ UNCHANGED <<reader, parser, purchase_orders, wizard, skipped_lines>>

\* lines 155-158 raise: the supplier registry fails
PartnerRaises ==
    /\ pc = "create"
    /\ order_idx < Len(orders_dict)
    /\ Except(PartnerErrorText)
    /\ UNCHANGED <<reader, parser, host, wizard, locals>>

\* lines 173-176: one iteration of the total_amount loop
TotalStep ==
    /\ pc = "total"
    /\ line_idx < Len(order_data.lines)
    /\ LET line_data == order_data.lines[line_idx + 1]
           unit_price == FloatOrZero(line_data.unit_price)
           quantity == FloatOrZero(line_data.quantity)
       IN IF ~unit_price.ok
          THEN Except(unit_price.exc) /\ UNCHANGED <<total_amount, line_idx>>
          ELSE IF ~quantity.ok
          THEN Except(quantity.exc) /\ UNCHANGED <<total_amount, line_idx>>
          ELSE /\ total_amount' = RAdd(total_amount, RMul(unit_price.r, quantity.r))
               /\ line_idx' = line_idx + 1
               /\ UNCHANGED <<pc, results>>
    /\ UNCHANGED <<reader, parser, host, wizard, partner, shipping_fee, skipped_lines,
                   order_line>>

\* line 179: the total_amount loop is over; skipped_lines = []
TotalDone ==
    /\ pc = "total"
    /\ line_idx = Len(order_data.lines)
    /\ skipped_lines' = <<>>
    /\ line_idx' = 0
    /\ pc' = "lines"
    /\ UNCHANGED <<reader, parser, results, host, wizard, partner, shipping_fee,
                   total_amount, order_line>>

\* lines 182-218: one iteration of the order-line loop
LineStep ==
    /\ pc = "lines"
    /\ line_idx < Len(order_data.lines)
    /\ LET line_data == order_data.lines[line_idx + 1]
           product_result == FindProductByReference(line_data)
           unit_price == FloatOrZero(line_data.unit_price)
           quantity == FloatOrZero(line_data.quantity)
       IN IF ~product_result.found
          THEN /\ skipped_lines' = Append(skipped_lines,
                                          SkippedLine(line_data, product_result.message))
               /\ line_idx' = line_idx + 1
               /\ UNCHANGED <<pc, results, order_line>>
          ELSE IF ~unit_price.ok
          THEN Except(unit_price.exc) /\ UNCHANGED <<skipped_lines, line_idx, order_line>>
          ELSE IF ~quantity.ok
          THEN Except(quantity.exc) /\ UNCHANGED <<skipped_lines, line_idx, order_line>>
          ELSE /\ order_line' = Append(order_line,
                      LineVals(product_result.product, line_data, quantity.r,
                               UnitPriceWithShipping(unit_price.r, quantity.r,
                                                     total_amount, shipping_fee)))
               /\ line_idx' = line_idx + 1
               /\ UNCHANGED <<pc, results, skipped_lines>>
    /\ UNCHANGED <<reader, parser, host, wizard, partner, shipping_fee, total_amount>>

\* lines 276-278 raise: the catalog search fails (it runs only for a line
\* whose reference is not blank)
SearchRaises ==
    /\ pc = "lines"
    /\ line_idx < Len(order_data.lines)
    /\ Truthy(order_data.lines[line_idx + 1].odoo_product_ref)
    /\ Except(SearchErrorText)
    /\ UNCHANGED <<reader, parser, host, wizard, locals>>

\* the end of the pass creating the purchase order whether or not it has lines
EmitOrderUnconditionally ==
    /\ pc = "lines"
    /\ line_idx = Len(order_data.lines)
    /\ purchase_orders' = Append(purchase_orders,
                                 PoVals(Len(purchase_orders) + 1, partner, order_data, order_line))
    /\ created_orders' = Append(created_orders,
                                CreatedOutcome(order_data, Len(purchase_orders) + 1, partner,
                                               skipped_lines))
    /\ raised_log' = Append(raised_log, "")
    /\ order_idx' = order_idx + 1
    /\ pc' = "create"
    /\ UNCHANGED <<reader, parser, partners, wizard, locals>>

\* lines 221-246: the order-line loop is over; create the purchase order or
\* record the order as skipped
EmitOrder ==
    /\ pc = "lines"
    /\ line_idx = Len(order_data.lines)
    /\ IF order_line # <<>>
       THEN LET po_id == Len(purchase_orders) + 1
            IN /\ purchase_orders' = Append(purchase_orders,
                                            PoVals(po_id, partner, order_data, order_line))
               /\ created_orders' = Append(created_orders,
                                           CreatedOutcome(order_data, po_id, partner, skipped_lines))
       ELSE /\ created_orders' = Append(created_orders, SkippedOutcome(order_data, skipped_lines))
            /\ UNCHANGED purchase_orders
    /\ raised_log' = Append(raised_log, "")
    /\ order_idx' = order_idx + 1
    /\ pc' = "create"
    /\ UNCHANGED <<reader, parser, partners, wizard, locals>>

\* line 222 raises: PurchaseOrder.create fails
CreateRaises ==
    /\ pc = "lines"
    /\ line_idx = Len(order_data.lines)
    /\ order_line # <<>>
    /\ Except(CreateErrorText)
    /\ UNCHANGED <<reader, parser, host, wizard, locals>>

\* the end of action_import writing the state but not the summary
FinishWithoutSummary ==
    /\ pc = "create"
    /\ order_idx = Len(orders_dict)
    /\ state' = "done"
    /\ pc' = "returned"
    /\ UNCHANGED <<reader, parser, results, host, import_summary, user_error, locals>>

\* lines 256, 63-76: the for loop is over; summary, write, return
Finish ==
    /\ pc = "create"
    /\ order_idx = Len(orders_dict)
    /\ import_summary' = <<GenerateSummary(created_orders)>>
    /\ state' = "done"
    /\ pc' = "returned"
    /\ UNCHANGED <<reader, parser, results, host, user_error, locals>>

Next ==
    \/ MissingLibrary
    \/ MissingFile
    \/ DecodeFailure
    \/ LoadWorkbook
    \/ SheetRow
    \/ ShortRow
    \/ ParseReturn
    \/ BeginOrder
    \/ PartnerRaises
    \/ TotalStep
    \/ TotalDone
    \/ LineStep
    \/ SearchRaises
    \/ EmitOrder
    \/ CreateRaises
    \/ Finish

\* action_import, start to end
Spec == Init /\ [][Next]_vars

\* _parse_excel_data alone, on a loaded sheet
InitParse ==
    /\ pc = "parse"
    /\ cell = NoneV
    /\ sheet_rows = <<>>
    /\ orders_dict = <<>>
    /\ last_order_no = Unbound
    /\ Fresh

NextParse == GroupRow \/ ParseReturn

SpecParse == InitParse /\ [][NextParse]_vars

\* _parse_excel_data over a whole sheet
RECURSIVE ParseAll(_)
ParseAll(rows) ==
    IF rows = <<>> THEN [dict |-> <<>>, last |-> Unbound, unbound |-> FALSE]
    ELSE LET before == ParseAll(SubSeq(rows, 1, Len(rows) - 1))
         IN ParseOneRow(before.dict, before.last, rows[Len(rows)])

\* _create_purchase_orders on one parsed order, the host raising nowhere
InitAlloc ==
    /\ pc = "create"
    /\ cell = NoneV
    /\ sheet_rows \in AllocSheets
    /\ orders_dict = ParseAll(sheet_rows).dict
    /\ last_order_no = ParseAll(sheet_rows).last
    /\ Fresh

NextAlloc == BeginOrder \/ TotalStep \/ TotalDone \/ LineStep \/ EmitOrder

SpecAlloc == InitAlloc /\ [][NextAlloc]_vars

\* _get_cell_value alone
InitCell ==
    /\ pc = "cell"
    /\ cell \in RawCells
    /\ sheet_rows = <<>>
    /\ orders_dict = <<>>
    /\ last_order_no = Unbound
    /\ Fresh

ReadCell ==
    /\ pc = "cell"
    /\ cell_value' = GetCellValue(cell)
    /\ pc' = "cell_read"
    /\ UNCHANGED <<cell, parser, results, host, wizard, locals>>

NextCell == ReadCell

SpecCell == InitCell /\ [][NextCell]_vars

----------------------------------------------------------------------------
(* What the claims speak of, stated from the sheet and the catalog.        *)

\* blank: false or the empty string
IsBlank(v) == v = FalseV \/ v = StrV(<<>>)

\* column 1 of the data rows, as read
OrderNoColumn ==
    SubSeq([j \in 1..Len(sheet_rows) |-> GetCellValue(sheet_rows[j].order_no)],
           1, Len(sheet_rows))

\* for each row, the nearest row at or above it whose column 1 (col) is not
\* blank, 0 if there is none
Owners(col) ==
    SubSeq([i \in 1..Len(col) |->
               LET above == {j \in 1..i : ~IsBlank(col[j])}
               IN IF above = {} THEN 0 ELSE CHOOSE j \in above : \A k \in above : k <= j],
           1, Len(col))

\* the first row of column col carrying order number key
FirstRow(col, key) ==
    LET rows == {j \in 1..Len(col) : col[j] = key}
    IN CHOOSE j \in rows : \A k \in rows : j <= k

\* the distinct order numbers of column col
OrderNumbers(col) == {col[j] : j \in {k \in 1..Len(col) : ~IsBlank(col[k])}}

\* the rows that are lines of order number key, in row order
LineRows(col, owner, key) ==
    SelectSeq([i \in 1..Len(col) |-> i],
              LAMBDA i : /\ owner[i] # 0
                         /\ col[owner[i]] = key
                         /\ ~IsBlank(GetCellValue(sheet_rows[i].product_name)))

\* a line whose reference is blank or is the default_code of no product
Unresolved(line_data) ==
    \/ IsBlank(line_data.odoo_product_ref)
    \/ ~\E p \in Catalog : StrV(p.default_code) = line_data.odoo_product_ref

UnresolvedLines(order) == SelectSeq(order.lines, Unresolved)

ResolvedLines(order) == SelectSeq(order.lines, LAMBDA l : ~Unresolved(l))

\* the purchase orders created for order i (by their origin)
OrdersCreatedFor(i) ==
    {k \in 1..Len(purchase_orders) : purchase_orders[k].origin = orders_dict[i].order_no}

\* the number a cell of text stands for
NumberOf(v) == FloatOrZero(v).r

RECURSIVE RSum(_)
RSum(xs) == IF xs = <<>> THEN Zero ELSE RAdd(Head(xs), RSum(Tail(xs)))

\* T: the pre-shipping total of an order, over all its lines
PreShippingTotal(order) ==
    RSum([k \in 1..Len(order.lines) |->
             RMul(NumberOf(order.lines[k].unit_price), NumberOf(order.lines[k].quantity))])

\* the shipping folded into the lines of purchase order po, created for order:
\* the sum of (price_unit - unit_price) * quantity over its lines
AllocatedShipping(order, po) ==
    LET src == ResolvedLines(order)
    IN RSum([k \in 1..Len(po.order_line) |->
                RMul(RSub(po.order_line[k].price_unit, NumberOf(src[k].unit_price)),
                     po.order_line[k].product_qty)])

----------------------------------------------------------------------------
(* C8.                                                                     *)

\* what C8 says _get_cell_value returns
SpecifiedCellValue(v) ==
    IF v.t = "none" THEN FalseV
    ELSE IF v.t = "datetime" THEN v
    ELSE IF Strip(PyStr(v)) = <<>> THEN FalseV ELSE StrV(Strip(PyStr(v)))

\* C8: _get_cell_value returns False for None, a datetime unchanged, and for
\* every other value (0 and 0.0 included) its trimmed string form, or False
\* when that form is empty.
C8_CellValueAsSpecified ==
    pc = "cell_read" => cell_value = SpecifiedCellValue(cell)

----------------------------------------------------------------------------
(* C7, C9: _parse_excel_data.                                              *)

\* C7: no aggregate of _parse_excel_data, while it runs or when it has
\* returned, has a blank order_no, whatever rows it read.
C7_NoBlankOrderNo ==
    \A k \in 1..Len(orders_dict) : ~IsBlank(orders_dict[k].order_no)

\* C7: the parse returned aggregates from a sheet that starts with two rows
\* whose column 1 is blank (None, then whitespace only).
C7_Witness ==
    /\ pc = "create"
    /\ Len(sheet_rows) = 3
    /\ sheet_rows[1].order_no = NoneV
    /\ sheet_rows[2].order_no = StrV(<<" ">>)
    /\ orders_dict # <<>>

\* C9: the aggregates are exactly the distinct order numbers of the rows
\* read; each aggregate's lines are the rows with a product name whose
\* nearest row at or above with a non-blank column 1 carries its number, in
\* row order; its header fields are those of the first row carrying its
\* number.  (Blank is as the cell reader reads the cell.)
C9_GroupingByNearestOrderNo ==
    LET col == OrderNoColumn
        owner == Owners(col)
    IN /\ {orders_dict[k].order_no : k \in 1..Len(orders_dict)} = OrderNumbers(col)
       /\ Len(orders_dict) = Cardinality(OrderNumbers(col))
       /\ \A k \in 1..Len(orders_dict) :
             LET a == orders_dict[k]
                 rows == LineRows(col, owner, a.order_no)
                 first == sheet_rows[FirstRow(col, a.order_no)]
             IN /\ Len(a.lines) = Len(rows)
                /\ \A n \in 1..Len(rows) :
                      a.lines[n] =
                         [product_name |-> GetCellValue(sheet_rows[rows[n]].product_name),
                          unit_price |-> GetCellValue(sheet_rows[rows[n]].unit_price),
                          quantity |-> GetCellValue(sheet_rows[rows[n]].quantity),
                          odoo_product_ref |->
                              GetCellValue(sheet_rows[rows[n]].odoo_product_ref)]
                /\ a.seller_company = GetCellValue(first.seller_company)
                /\ a.seller_name = GetCellValue(first.seller_name)
                /\ a.shipping_fee = GetCellValue(first.shipping_fee)

\* C9: a sheet whose first row has a blank order number and a product (and
\* adds nothing), then an order, then a continuation row of another seller
\* adding a second line to it.
C9_Witness ==
    /\ pc = "create"
    /\ Len(sheet_rows) = 3
    /\ sheet_rows[1].order_no = StrV(<<" ">>) /\ sheet_rows[1].product_name = StrV(<<"B">>)
    /\ sheet_rows[2].order_no = O1 /\ sheet_rows[2].seller_company = StrV(<<"S">>)
    /\ sheet_rows[3].order_no = NoneV /\ sheet_rows[3].seller_company = StrV(<<"T">>)
    /\ Len(orders_dict) = 1
    /\ Len(orders_dict[1].lines) = 2
    /\ orders_dict[1].lines[1].product_name = StrV(<<"A">>)
    /\ orders_dict[1].lines[2].product_name = StrV(<<"B">>)

----------------------------------------------------------------------------
(* C1, C3, C4, C5, C6: a whole import run.                                 *)

\* skipped holds, in line order, one entry for each unresolved line of order
RecordsUnresolved(order, skipped) ==
    LET lost == UnresolvedLines(order)
    IN /\ Len(skipped) = Len(lost)
       /\ \A k \in 1..Len(lost) :
             /\ skipped[k].product_name = lost[k].product_name
             /\ skipped[k].odoo_ref = lost[k].odoo_product_ref

\* the order lines of po are, in line order, the resolved lines of order and
\* nothing else
HoldsResolvedOnly(order, po) ==
    LET kept == ResolvedLines(order)
    IN /\ Len(po.order_line) = Len(kept)
       /\ \A k \in 1..Len(kept) :
             /\ po.order_line[k].name = kept[k].product_name
             /\ \E p \in Catalog : /\ p.id = po.order_line[k].product_id
                                   /\ StrV(p.default_code) = kept[k].odoo_product_ref

\* C1 as stated: for every processed order, a line with a blank or unknown
\* reference is in no purchase order created for it and is recorded in the
\* skipped_lines of its outcome, whatever the outcome's status.
C1_SkippedLinesAlwaysRecorded ==
    \A i \in 1..Len(created_orders) :
        /\ \A k \in OrdersCreatedFor(i) : HoldsResolvedOnly(orders_dict[i], purchase_orders[k])
        /\ RecordsUnresolved(orders_dict[i], created_orders[i].skipped_lines)

\* C1, amended: for every processed order, a line with a blank or unknown
\* reference is in no purchase order created for it; it is recorded in the
\* skipped_lines of the outcome when the outcome is success, partial or
\* skipped; an error outcome carries no skipped_lines at all.
C1_SkippedLinesRecordedUnlessError ==
    \A i \in 1..Len(created_orders) :
        /\ \A k \in OrdersCreatedFor(i) : HoldsResolvedOnly(orders_dict[i], purchase_orders[k])
        /\ created_orders[i].status # "error"
              => RecordsUnresolved(orders_dict[i], created_orders[i].skipped_lines)
        /\ created_orders[i].status = "error"
              => /\ created_orders[i].skipped_key = "absent"
                 /\ created_orders[i].skipped_lines = <<>>

\* C1: an order ended partial with a resolved line in its purchase order
\* and two skipped lines, one with a blank and one with an unknown reference.
C1_Witness ==
    \E i \in 1..Len(created_orders) :
        /\ created_orders[i].status = "partial"
        /\ Len(created_orders[i].skipped_lines) = 2
        /\ created_orders[i].skipped_lines[1].reason # created_orders[i].skipped_lines[2].reason
        /\ \E k \in OrdersCreatedFor(i) : Len(purchase_orders[k].order_line) = 1

\* a cell of the order that float() rejects
HasBadNumber(order) ==
    \/ ~FloatOrZero(order.shipping_fee).ok
    \/ \E k \in 1..Len(order.lines) :
          ~FloatOrZero(order.lines[k].unit_price).ok \/ ~FloatOrZero(order.lines[k].quantity).ok

\* C3: every order looped over has its own outcome, in place; an order whose
\* materialization raised (in the supplier registry, in float(), in the catalog
\* search or in create) has status error with the exception text as message;
\* and when _create_purchase_orders returns every order has been looped over.
C3_FailureIsolation ==
    /\ Len(created_orders) = order_idx
    /\ Len(raised_log) = order_idx
    /\ \A i \in 1..Len(created_orders) :
          /\ created_orders[i].order_no = orders_dict[i].order_no
          /\ raised_log[i] # ""
                => /\ created_orders[i].status = "error"
                   /\ created_orders[i].message = raised_log[i]
          /\ HasBadNumber(orders_dict[i]) => created_orders[i].status = "error"
    /\ pc = "returned" => order_idx = Len(orders_dict)

\* C3: the run returned; the first of two orders raised in float() and the
\* second one was still created.
C3_Witness ==
    /\ pc = "returned"
    /\ Len(created_orders) = 2
    /\ created_orders[1].status = "error"
    /\ created_orders[1].message = ValueErrorText
    /\ created_orders[2].status = "success"

\* no line of the order resolves: each is unresolved, or there is none
NoLineSurvives(order) == ResolvedLines(order) = <<>>

\* C4 as stated: an order none of whose lines resolves ends skipped, and no
\* purchase order is created for it.
C4_NoLinesMeansSkipped ==
    \A i \in 1..Len(created_orders) :
        NoLineSurvives(orders_dict[i])
           => /\ created_orders[i].status = "skipped"
              /\ OrdersCreatedFor(i) = {}

\* C4, amended: an order none of whose lines resolves ends skipped, or error
\* when (and only when) its materialization raised; never success or partial;
\* PurchaseOrder.create is not called for it.
C4_NoLinesMeansSkippedOrError ==
    \A i \in 1..Len(created_orders) :
        NoLineSurvives(orders_dict[i])
           => /\ created_orders[i].status \in {"skipped", "error"}
              /\ created_orders[i].status = "error" <=> raised_log[i] # ""
              /\ created_orders[i].message # CreateErrorText
              /\ created_orders[i].po_id = 0
              /\ OrdersCreatedFor(i) = {}

\* C4: an order with no line at all and an order whose only line has an
\* unknown reference both ended skipped.
C4_Witness ==
    /\ Len(created_orders) = 2
    /\ orders_dict[1].lines = <<>>
    /\ created_orders[1].status = "skipped" /\ created_orders[1].message_count = 0
    /\ Len(orders_dict[2].lines) = 1
    /\ created_orders[2].status = "skipped" /\ created_orders[2].message_count = 1

\* C5: when the run has returned, the outcome list holds one outcome for each
\* distinct order number of the sheet and no other, ordered by the first row
\* carrying the number.
C5_OneOutcomePerOrderInSheetOrder ==
    pc = "returned" =>
        LET col == OrderNoColumn
        IN /\ Len(created_orders) = Cardinality(OrderNumbers(col))
           /\ {created_orders[i].order_no : i \in 1..Len(created_orders)} = OrderNumbers(col)
           /\ \A i, j \in 1..Len(created_orders) :
                 i < j => FirstRow(col, created_orders[i].order_no)
                             < FirstRow(col, created_orders[j].order_no)

\* C5: the rows carry O2, O1, O2 again; the outcomes are O2's then O1's, and
\* O2's is an error.
C5_Witness ==
    /\ pc = "returned"
    /\ Len(sheet_rows) = 3
    /\ sheet_rows[1].order_no = O2 /\ sheet_rows[2].order_no = O1 /\ sheet_rows[3].order_no = O2
    /\ Len(created_orders) = 2
    /\ created_orders[1].order_no = O2 /\ created_orders[1].status = "error"
    /\ created_orders[2].order_no = O1

\* the summary lists exactly the given orders: the total, the counts and the
\* four blocks
Covers(summary, orders) ==
    /\ summary.total = Len(orders)
    /\ summary.success + summary.partial + summary.skipped + summary.failed = Len(orders)
    /\ Len(summary.success_block) = summary.success
    /\ Len(summary.partial_block) = summary.partial
    /\ Len(summary.skipped_block) = summary.skipped
    /\ Len(summary.failed_block) = summary.failed
    /\ \A i \in 1..Len(orders) :
          \E b \in {summary.success_block, summary.partial_block,
                    summary.skipped_block, summary.failed_block} :
             \E k \in 1..Len(b) : b[k] = orders[i].order_no

\* the passes of the loops of _create_purchase_orders still to run for the
\* orders after the k-th: three steps an order and two a line
RECURSIVE LoopStepsAfter(_)
LoopStepsAfter(k) ==
    IF k >= Len(orders_dict) THEN 0
    ELSE 3 + 2 * Len(orders_dict[k + 1].lines) + LoopStepsAfter(k + 1)

\* a bound on the steps action_import still takes: a row read adds at most
\* one order and one line
StepsLeft ==
    CASE pc = "start" -> 3 + 6 * MaxRows
      [] pc = "parse" -> 2 + 6 * (MaxRows - Len(sheet_rows)) + LoopStepsAfter(0)
      [] pc = "create" -> 1 + LoopStepsAfter(order_idx)
      [] pc = "total" -> 3 + 2 * Len(order_data.lines) - line_idx + LoopStepsAfter(order_idx + 1)
      [] pc = "lines" -> 2 + Len(order_data.lines) - line_idx + LoopStepsAfter(order_idx + 1)
      [] OTHER -> 0

\* action_import has a step to take that needs no failure: the guards of
\* LoadWorkbook, ParseReturn, BeginOrder or Finish, TotalStep or TotalDone,
\* LineStep or EmitOrder
CanProceed ==
    \/ pc \in {"start", "parse"}
    \/ pc = "create" /\ order_idx <= Len(orders_dict)
    \/ /\ pc \in {"total", "lines"}
       /\ order_idx < Len(orders_dict)
       /\ line_idx <= Len(order_data.lines)

\* the state part of C6
FatalOrDone ==
    /\ pc \in {"raised", "returned"} \/ CanProceed
    /\ StepsLeft >= 0
    /\ pc = "raised" => /\ user_error # ""
                        /\ state = "draft"
                        /\ import_summary = <<>>
                        /\ raised_log = <<>>
    /\ pc = "returned" => /\ user_error = ""
                          /\ state = "done"
                          /\ Len(import_summary) = 1
                          /\ Covers(import_summary[1], orders_dict)
    /\ state = "done" <=> pc = "returned"
    /\ state = "done" => import_summary # <<>>

\* C6: action_import always ends, raised or returned: it is never stuck
\* before and every step brings the end nearer.  Raised: a UserError, state
\* still draft, no summary, reached only before any order is materialized.
\* Returned: state done and a summary covering every parsed order.  State is
\* done only with the summary written.
C6_FatalOrDoneWithSummary ==
    /\ []FatalOrDone
    /\ [][/\ StepsLeft' < StepsLeft
          /\ pc' = "raised" => pc \in {"start", "parse"}]_vars

\* C6: the run returned done although one order failed and the other was
\* skipped; the summary counts both.
C6_Witness ==
    /\ pc = "returned"
    /\ state = "done"
    /\ Len(created_orders) = 2
    /\ created_orders[1].status = "error"
    /\ created_orders[2].status = "skipped"
    /\ import_summary[1].failed = 1 /\ import_summary[1].skipped = 1

----------------------------------------------------------------------------
(* C2, C10: the shipping allocation of one order.                          *)

\* the one order of the run has been looped over
Materialized == pc = "create" /\ order_idx = 1

AllQuantities(order, Holds(_)) ==
    \A k \in 1..Len(order.lines) : Holds(NumberOf(order.lines[k].quantity))

\* C2 as stated: for an order with S > 0, T > 0 and only positive quantities
\* for which a purchase order is created, the shipping folded into its lines
\* is S, whichever lines resolve.
C2_ResolvedLinesCarryWholeFee ==
    (/\ Materialized
     /\ RPos(NumberOf(orders_dict[1].shipping_fee))
     /\ RPos(PreShippingTotal(orders_dict[1]))
     /\ AllQuantities(orders_dict[1], RPos)
     /\ purchase_orders # <<>>)
    => AllocatedShipping(orders_dict[1], purchase_orders[1])
          = NumberOf(orders_dict[1].shipping_fee)

\* S > 0, T > 0, every line resolves and some line has quantity 0
ZeroQuantityCase ==
    /\ Materialized
    /\ RPos(NumberOf(orders_dict[1].shipping_fee))
    /\ RPos(PreShippingTotal(orders_dict[1]))
    /\ UnresolvedLines(orders_dict[1]) = <<>>
    /\ \E k \in 1..Len(orders_dict[1].lines) : NumberOf(orders_dict[1].lines[k].quantity) = Zero

\* each zero-quantity line of the order keeps its unit price in the purchase order
ZeroQuantityLinesKeepPrice ==
    \A k \in 1..Len(orders_dict[1].lines) :
        NumberOf(orders_dict[1].lines[k].quantity) = Zero
           => purchase_orders[1].order_line[k].price_unit
                 = NumberOf(orders_dict[1].lines[k].unit_price)

\* C10 as stated: in the zero-quantity case the zero-quantity lines keep
\* their unit price and the shipping folded into the lines is less than S.
C10_ZeroQuantityUndercountsFee ==
    ZeroQuantityCase
    => /\ ZeroQuantityLinesKeepPrice
       /\ RPos(RSub(NumberOf(orders_dict[1].shipping_fee),
                    AllocatedShipping(orders_dict[1], purchase_orders[1])))

\* C10, amended: in the zero-quantity case the zero-quantity lines keep their
\* unit price, and when no quantity is negative the shipping folded into the
\* lines is exactly S: a zero-quantity line's share of the fee is zero.
C10_ZeroQuantityKeepsWholeFee ==
    ZeroQuantityCase
    => /\ ZeroQuantityLinesKeepPrice
       /\ AllQuantities(orders_dict[1], LAMBDA q : q[1] >= 0)
             => AllocatedShipping(orders_dict[1], purchase_orders[1])
                   = NumberOf(orders_dict[1].shipping_fee)

\* C10: the zero-quantity case with a line of quantity 2 beside the
\* zero-quantity line.
C10_Witness ==
    /\ ZeroQuantityCase
    /\ Len(orders_dict[1].lines) = 2
    /\ NumberOf(orders_dict[1].lines[1].quantity) = Rat(2, 1)
    /\ NumberOf(orders_dict[1].lines[2].quantity) = Zero

====
